---- MODULE Spec2Model ----
(***************************************************************************)
(* Model of my-shop-backend: the product routes (routes/products.js), the  *)
(* product schema (models/Product.js), the admin gate                      *)
(* (middleware/isAdmin.js) and the cart routes (unnamed/part_000).         *)
(*                                                                         *)
(* Request values are JavaScript values, kept with their type tag so that  *)
(* truthiness, Number() and Boolean() behave as in the handlers.           *)
(***************************************************************************)
EXTENDS Integers, Sequences, FiniteSets, TLC

VARIABLES products, carts, http, reqs

vars == <<products, carts, http, reqs>>

(* ------------------------------ bounds -------------------------------- *)

MaxPrice == 1
MaxStock == 2
RaceStock == 3

(* --------------------------- JavaScript values ------------------------ *)

Undefined == <<"undefined">>
NaN == <<"NaN">>
Num(n) == <<"number", n>>
Str(s) == <<"string", s>>
Bool(b) == <<"boolean", b>>

IsNum(v) == v[1] = "number"
IsStr(v) == v[1] = "string"
IsBool(v) == v[1] = "boolean"

\* !v is false
Truthy(v) == v \notin {Undefined, NaN, Num(0), Str(""), Bool(FALSE)}

\* Number(v); the only strings of the model are not numerals, but for ""
JSNumber(v) ==
  IF IsNum(v) THEN v
  ELSE IF v = Str("") THEN Num(0)
  ELSE IF IsBool(v) THEN (IF v[2] THEN Num(1) ELSE Num(0))
  ELSE NaN

\* Boolean(v)
JSBoolean(v) == Bool(Truthy(v))

\* a || b
JSOr(a, b) == IF Truthy(a) THEN a ELSE b

(* ------------------------------ documents ----------------------------- *)

\* what findById / findOne give when nothing matches
NoDoc == [missing |-> TRUE]

ProductIds == {"p1", "p2"}

Categories ==
  {"Electronics", "Clothing", "Books", "Home & Garden", "Sports", "Toys", "Other"}

DefaultImage == Str("placeholder")
DefaultStock == Num(0)
DefaultFeatured == Bool(FALSE)

\* new Product(fields): the schema's defaults fill the undefined paths
ApplyDefaults(f) ==
  [f EXCEPT !.stock = IF f.stock = Undefined THEN DefaultStock ELSE f.stock,
            !.image = IF f.image = Undefined THEN DefaultImage ELSE f.image,
            !.featured = IF f.featured = Undefined THEN DefaultFeatured
                         ELSE f.featured]

\* the schema's validators, run by Product.create and product.save
MutValidNoMin(p) ==
  /\ IsStr(p.name) /\ p.name # Str("")
  /\ IsStr(p.description) /\ p.description # Str("")
  /\ IsNum(p.price)
  /\ IsStr(p.category) /\ p.category[2] \in Categories
  /\ IsNum(p.stock)
  /\ IsStr(p.image)
  /\ IsBool(p.featured)

ProductValid(p) ==
  /\ IsStr(p.name) /\ p.name # Str("")
  /\ IsStr(p.description) /\ p.description # Str("")
  /\ IsNum(p.price) /\ p.price[2] >= 0
  /\ IsStr(p.category) /\ p.category[2] \in Categories
  /\ IsNum(p.stock) /\ p.stock[2] >= 0
  /\ IsStr(p.image)
  /\ IsBool(p.featured)

\* Product.findById(id)
FindById(id) == IF IsStr(id) /\ id[2] \in ProductIds THEN products[id[2]] ELSE NoDoc

(* ------------------------- requests and responses --------------------- *)

Anon == "anon"

\* one request at a time: received, handled by its route, answered
Request(op, c, id, arg) ==
  [phase |-> "pending", op |-> op, caller |-> c, id |-> id, arg |-> arg,
   status |-> 0]

Idle == [phase |-> "idle", op |-> "none", caller |-> Anon, id |-> Undefined,
         arg |-> Undefined, status |-> 0]

Pending(op) == http.phase = "pending" /\ http.op = op

\* res.status(status).json(...)
Reply(status) == http' = [http EXCEPT !.phase = "done", !.status = status]

\* a request of the set R arrives; a create needs an identity left in ids
Receive(R, ids) ==
  /\ http.phase = "idle"
  /\ \E r \in R :
       /\ r.op = "create" => \E i \in ids : products[i] = NoDoc
       /\ http' = r
  /\ UNCHANGED <<products, carts, reqs>>

\* the response is delivered and the connection is free again
Respond ==
  /\ http.phase = "done"
  /\ http' = Idle
  /\ UNCHANGED <<products, carts, reqs>>

(* ------------------------------ the gate ------------------------------ *)

Callers == {Anon, "u1", "admin"}
Role(c) == IF c = "admin" THEN "admin" ELSE "user"

\* req.user as the authentication middleware leaves it
ReqUser(c) == c

MutAnyUser(c) == ReqUser(c) # Anon

isAdmin(c) == ReqUser(c) # Anon /\ Role(ReqUser(c)) = "admin"

Mutations == {"create", "update", "delete", "upload"}

\* the 403 of isAdmin: the handler is not called
Forbidden ==
  /\ http.phase = "pending" /\ http.op \in Mutations
  /\ ~isAdmin(http.caller)
  /\ Reply(403)
  /\ UNCHANGED <<products, carts, reqs>>

(* --------------------------- product handlers ------------------------- *)

\* GET /api/products
ListProducts ==
  /\ Pending("list")
  /\ Reply(200)
  /\ UNCHANGED <<products, carts, reqs>>

\* GET /api/products/:id
GetProduct ==
  /\ Pending("get")
  /\ Reply(IF FindById(http.id) = NoDoc THEN 404 ELSE 200)
  /\ UNCHANGED <<products, carts, reqs>>

\* the document POST / hands to Product.create
CreateFields(b) ==
  [name |-> b.name,
   description |-> b.description,
   price |-> JSNumber(b.price),
   category |-> b.category,
   stock |-> JSOr(JSNumber(b.stock), Num(0)),
   image |-> JSOr(b.image, Undefined),
   featured |-> JSBoolean(b.featured)]

\* the required-fields test of POST /
CreateMissing(b) ==
  \/ ~Truthy(b.name)
  \/ ~Truthy(b.description)
  \/ ~Truthy(b.price)
  \/ ~Truthy(b.category)

\* POST /api/products; the new identity is one of ids that is not in use
CreateProduct(ids) ==
  /\ Pending("create")
  /\ isAdmin(http.caller)
  /\ LET b == http.arg
         doc == ApplyDefaults(CreateFields(b))
     IN  IF CreateMissing(b)
         THEN Reply(400) /\ UNCHANGED products
         ELSE IF ~ProductValid(doc)
         THEN Reply(500) /\ UNCHANGED products
         ELSE /\ Reply(201)
              /\ \E id \in ids :
                   /\ products[id] = NoDoc
                   /\ products' = [products EXCEPT ![id] = doc]
  /\ UNCHANGED <<carts, reqs>>

\* the field assignments of PUT /:id
MergeFields(p, b) ==
  [name |-> JSOr(b.name, p.name),
   description |-> JSOr(b.description, p.description),
   price |-> IF b.price # Undefined THEN JSNumber(b.price) ELSE p.price,
   category |-> JSOr(b.category, p.category),
   stock |-> IF b.stock # Undefined THEN JSNumber(b.stock) ELSE p.stock,
   image |-> JSOr(b.image, p.image),
   featured |-> IF b.featured # Undefined THEN JSBoolean(b.featured)
                ELSE p.featured]

\* PUT /api/products/:id
UpdateProduct ==
  /\ Pending("update")
  /\ isAdmin(http.caller)
  /\ LET p == FindById(http.id) IN
       IF p = NoDoc
       THEN Reply(404) /\ UNCHANGED products
       ELSE IF ~ProductValid(MergeFields(p, http.arg))
       THEN Reply(500) /\ UNCHANGED products
       ELSE /\ Reply(200)
            /\ products' = [products EXCEPT ![http.id[2]] = MergeFields(p, http.arg)]
  /\ UNCHANGED <<carts, reqs>>

\* DELETE /api/products/:id
DeleteProduct ==
  /\ Pending("delete")
  /\ isAdmin(http.caller)
  /\ IF FindById(http.id) = NoDoc
     THEN Reply(404) /\ UNCHANGED products
     ELSE /\ Reply(200)
          /\ products' = [products EXCEPT ![http.id[2]] = NoDoc]
  /\ UNCHANGED <<carts, reqs>>

\* POST /api/products/upload; arg is req.file.path, Undefined without a file
UploadImage ==
  /\ Pending("upload")
  /\ isAdmin(http.caller)
  /\ Reply(IF ~Truthy(http.arg) THEN 400 ELSE 200)
  /\ UNCHANGED <<products, carts, reqs>>

(* ----------------------- the product store alone ---------------------- *)

Bodies ==
  [name : {Undefined, Str(""), Str("a"), Str("b")},
   description : {Undefined, Str("d")},
   price : {Undefined} \cup {Num(n) : n \in (-1)..MaxPrice},
   category : {Undefined, Str("Books"), Str("Sofa")},
   stock : {Undefined, Str("many")} \cup {Num(n) : n \in (-1)..MaxStock},
   image : {Undefined, Str(""), Str("img")},
   featured : {Undefined, Bool(FALSE), Bool(TRUE)}]

EmptyBody ==
  [name |-> Undefined, description |-> Undefined, price |-> Undefined,
   category |-> Undefined, stock |-> Undefined, image |-> Undefined,
   featured |-> Undefined]

FullBody(s) ==
  [name |-> Str("a"), description |-> Str("d"), price |-> Num(1),
   category |-> Str("Books"), stock |-> Num(s), image |-> Undefined,
   featured |-> Undefined]

\* the gate answers the callers it turns away without reading the body
BodiesOf(c) == IF c = "admin" THEN Bodies ELSE {EmptyBody, FullBody(1)}

\* the ids the catalogue hands out; "p2" then is an id that never resolves
CatalogIds == {"p1"}

ParamIds == {Str(i) : i \in ProductIds}

ProductRequests ==
  {Request("list", c, Undefined, Undefined) : c \in Callers}
    \cup {Request("get", c, i, Undefined) : c \in Callers, i \in ParamIds}
    \cup UNION {{Request("create", c, Undefined, b) : b \in BodiesOf(c)} : c \in Callers}
    \cup UNION {{Request("update", c, i, b) : b \in BodiesOf(c), i \in ParamIds} :
                c \in Callers}
    \cup {Request("delete", c, i, Undefined) : c \in Callers, i \in ParamIds}
    \cup {Request("upload", c, Undefined, f) : c \in Callers, f \in {Undefined, Str("img")}}

(* ------------------------------- carts -------------------------------- *)

Users == {"u1", "u2"}

\* Cart.findOne({ user }): the position of the user's cart in the collection, 0 for null
FindOne(cs, u) ==
  IF \E i \in 1..Len(cs) : cs[i].user = u
  THEN CHOOSE i \in 1..Len(cs) :
         cs[i].user = u /\ \A j \in 1..(i - 1) : cs[j].user # u
  ELSE 0

\* cart.items.findIndex(item => item.product.toString() === productId), 0 for -1
FindIndex(items, pid) ==
  IF \E i \in 1..Len(items) : Str(items[i].product) = pid
  THEN CHOOSE i \in 1..Len(items) :
         Str(items[i].product) = pid /\ \A j \in 1..(i - 1) : Str(items[j].product) # pid
  ELSE 0

\* cart.items.filter(item => item.product.toString() !== productId)
RECURSIVE FilterOut(_, _)
MutFilterOutFirst(items, pid) == IF items = <<>> THEN items ELSE Tail(items)

FilterOut(items, pid) ==
  IF items = <<>> THEN <<>>
  ELSE IF Str(Head(items).product) # pid
       THEN <<Head(items)>> \o FilterOut(Tail(items), pid)
       ELSE FilterOut(Tail(items), pid)

\* the validators of the cart schema: a line item's quantity is at least 1
MutCartValidAny(items) == TRUE

CartValid(items) == \A i \in 1..Len(items) : items[i].quantity >= 1

\* the unique index on the cart's user
UniqueUser(cs, u) == \A i \in 1..Len(cs) : cs[i].user # u

\* cart.save() and Cart.create(): idx = 0 is a document not stored yet
SaveCart(cs, idx, u, items) ==
  IF ~CartValid(items) THEN [ok |-> FALSE, carts |-> cs]
  ELSE IF idx = 0
  THEN IF UniqueUser(cs, u)
       THEN [ok |-> TRUE, carts |-> Append(cs, [user |-> u, items |-> items])]
       ELSE [ok |-> FALSE, carts |-> cs]
  ELSE IF idx > Len(cs) THEN [ok |-> FALSE, carts |-> cs]
  ELSE [ok |-> TRUE, carts |-> [cs EXCEPT ![idx].items = items]]

\* const { quantity = 1 } = req.body
OrOne(q) == IF q = Undefined THEN Num(1) ELSE q

\* the merge of POST /add on the cart's items, after the first stock test
MutAddItemsNoRecheck(items, pid, q, stock) ==
  LET idx == FindIndex(items, pid) IN
    IF idx > 0
    THEN [status |-> 200,
          items |-> [items EXCEPT ![idx].quantity = items[idx].quantity + JSNumber(q)[2]]]
    ELSE [status |-> 200,
          items |-> Append(items, [product |-> pid[2], quantity |-> JSNumber(q)[2]])]

MutAddItemsOverwrite(items, pid, q, stock) ==
  LET idx == FindIndex(items, pid) IN
    IF idx > 0
    THEN IF stock < items[idx].quantity + JSNumber(q)[2]
         THEN [status |-> 400, items |-> items]
         ELSE [status |-> 200,
               items |-> [items EXCEPT ![idx].quantity = JSNumber(q)[2]]]
    ELSE [status |-> 200,
          items |-> Append(items, [product |-> pid[2], quantity |-> JSNumber(q)[2]])]

AddItems(items, pid, q, stock) ==
  LET idx == FindIndex(items, pid) IN
    IF idx > 0
    THEN LET newQuantity == items[idx].quantity + JSNumber(q)[2] IN
           IF stock < newQuantity
           THEN [status |-> 400, items |-> items]
           ELSE [status |-> 200,
                 items |-> [items EXCEPT ![idx].quantity = newQuantity]]
    ELSE [status |-> 200,
          items |-> Append(items, [product |-> pid[2], quantity |-> JSNumber(q)[2]])]

\* the write of POST /update on the cart's items
MutSetItemOrPush(items, pid, q) ==
  IF FindIndex(items, pid) = 0
  THEN [status |-> 200,
        items |-> Append(items, [product |-> pid[2], quantity |-> JSNumber(q)[2]])]
  ELSE [status |-> 200,
        items |-> [items EXCEPT ![FindIndex(items, pid)].quantity = JSNumber(q)[2]]]

SetItem(items, pid, q) ==
  LET itemIndex == FindIndex(items, pid) IN
    IF itemIndex = 0
    THEN [status |-> 404, items |-> items]
    ELSE [status |-> 200,
          items |-> [items EXCEPT ![itemIndex].quantity = JSNumber(q)[2]]]

\* the save at the end of a cart handler, and its answer
SaveAndReply(idx, u, items) ==
  LET s == SaveCart(carts, idx, u, items) IN
    IF s.ok THEN Reply(200) /\ carts' = s.carts
    ELSE Reply(500) /\ UNCHANGED carts

ItemsAt(cs, idx) == IF idx = 0 THEN <<>> ELSE cs[idx].items

\* GET /api/cart
GetCart ==
  /\ Pending("cart")
  /\ IF FindOne(carts, http.caller) = 0
     THEN SaveAndReply(0, http.caller, <<>>)
     ELSE Reply(200) /\ UNCHANGED carts
  /\ UNCHANGED <<products, reqs>>

\* POST /api/cart/add
AddToCart ==
  /\ Pending("add")
  /\ LET productId == http.id
         quantity == OrOne(http.arg)
         product == FindById(productId)
         idx == FindOne(carts, http.caller)
     IN  IF ~Truthy(productId) THEN Reply(400) /\ UNCHANGED carts
         ELSE IF product = NoDoc THEN Reply(404) /\ UNCHANGED carts
         ELSE IF product.stock[2] < quantity[2] THEN Reply(400) /\ UNCHANGED carts
         ELSE LET r == AddItems(ItemsAt(carts, idx), productId, quantity,
                                product.stock[2])
              IN  IF r.status # 200 THEN Reply(r.status) /\ UNCHANGED carts
                  ELSE SaveAndReply(idx, http.caller, r.items)
  /\ UNCHANGED <<products, reqs>>

\* POST /api/cart/remove
RemoveFromCart ==
  /\ Pending("remove")
  /\ LET productId == http.id
         idx == FindOne(carts, http.caller)
     IN  IF ~Truthy(productId) THEN Reply(400) /\ UNCHANGED carts
         ELSE IF idx = 0 THEN Reply(404) /\ UNCHANGED carts
         ELSE SaveAndReply(idx, http.caller, FilterOut(carts[idx].items, productId))
  /\ UNCHANGED <<products, reqs>>

\* POST /api/cart/update
UpdateCart ==
  /\ Pending("quantity")
  /\ LET productId == http.id
         quantity == http.arg
         product == FindById(productId)
         idx == FindOne(carts, http.caller)
     IN  IF ~Truthy(productId) \/ ~Truthy(quantity) THEN Reply(400) /\ UNCHANGED carts
         ELSE IF quantity[2] < 1 THEN Reply(400) /\ UNCHANGED carts
         ELSE IF product = NoDoc THEN Reply(404) /\ UNCHANGED carts
         ELSE IF product.stock[2] < quantity[2] THEN Reply(400) /\ UNCHANGED carts
         ELSE IF idx = 0 THEN Reply(404) /\ UNCHANGED carts
         ELSE LET r == SetItem(carts[idx].items, productId, quantity) IN
                IF r.status # 200 THEN Reply(r.status) /\ UNCHANGED carts
                ELSE SaveAndReply(idx, http.caller, r.items)
  /\ UNCHANGED <<products, reqs>>

\* what DELETE /api/cart stores for the cart at idx
MutClearDeletes(cs, idx) ==
  [ok |-> TRUE, carts |-> SubSeq(cs, 1, idx - 1) \o SubSeq(cs, idx + 1, Len(cs))]

ClearItems(cs, idx) == SaveCart(cs, idx, cs[idx].user, <<>>)

\* DELETE /api/cart
ClearCart ==
  /\ Pending("clear")
  /\ LET idx == FindOne(carts, http.caller) IN
       IF idx = 0 THEN Reply(404) /\ UNCHANGED carts
       ELSE LET s == ClearItems(carts, idx) IN
              IF s.ok THEN Reply(200) /\ carts' = s.carts
              ELSE Reply(500) /\ UNCHANGED carts
  /\ UNCHANGED <<products, reqs>>

(* ------------------------ the shop, one request at a time ------------- *)

CartIds == {Undefined} \cup ParamIds
Quantities == {Undefined} \cup {Num(n) : n \in (-1)..MaxStock}

CartRequests ==
  {Request("cart", u, Undefined, Undefined) : u \in Users}
    \cup {Request("add", u, i, q) : u \in Users, i \in CartIds, q \in Quantities}
    \cup {Request("remove", u, i, Undefined) : u \in Users, i \in CartIds}
    \cup {Request("quantity", u, i, q) : u \in Users, i \in CartIds, q \in Quantities}
    \cup {Request("clear", u, Undefined, Undefined) : u \in Users}

\* the admin's requests that set what the cart handlers read: whether the
\* product exists, and a stock that is sold out or full
StockLevels == {0, MaxStock}

StockRequests ==
  {Request("create", "admin", Undefined, FullBody(s)) : s \in StockLevels}
    \cup {Request("update", "admin", i, [EmptyBody EXCEPT !.stock = Num(s)]) :
          i \in ParamIds, s \in StockLevels}
    \cup {Request("delete", "admin", i, Undefined) : i \in ParamIds}

(* ------------------- cart requests running concurrently --------------- *)

\* A handler runs up to its next await; the store is read and written at the
\* awaits, so the steps of different requests interleave between them.

Slots == {"r1", "r2"}

NoReq ==
  [pc |-> "free", op |-> "none", user |-> "u1", id |-> Undefined, arg |-> Undefined,
   stock |-> 0, idx |-> 0, items |-> <<>>, e |-> 0, after |-> FALSE,
   followed |-> FALSE, alone |-> TRUE, status |-> 0]

Other(s) == CHOOSE t \in Slots : t # s

At(s, op, pc) == reqs[s].op = op /\ reqs[s].pc = pc

Done(s, status) == reqs' = [reqs EXCEPT ![s].pc = "done", ![s].status = status]

RaceQuantities == {Undefined} \cup {Num(n) : n \in 2..(RaceStock - 1)}

\* a request arrives. alone: no other request was running while this one ran;
\* after: this one is the first to arrive since the other slot's request, which
\* ran alone, was answered
CReceive(s) ==
  /\ reqs[s].pc = "free"
  /\ \E op \in {"cart", "add", "clear"}, u \in Users :
       \E i \in (IF op = "add" THEN ParamIds ELSE {Undefined}) :
         \E q \in (IF op = "add" THEN RaceQuantities ELSE {Undefined}) :
           reqs' = [reqs EXCEPT
                      ![s] = [NoReq EXCEPT !.pc = "start", !.op = op, !.user = u,
                                           !.id = i, !.arg = q,
                                           !.alone = (reqs[Other(s)].pc \in {"free", "done"}),
                                           !.after = (/\ reqs[Other(s)].pc = "done"
                                                      /\ reqs[Other(s)].alone
                                                      /\ ~reqs[Other(s)].followed)],
                      ![Other(s)].after = FALSE,
                      ![Other(s)].followed = TRUE,
                      ![Other(s)].alone = (/\ reqs[Other(s)].alone
                                           /\ reqs[Other(s)].pc \in {"free", "done"})]
  /\ UNCHANGED <<products, carts, http>>

CRespond(s) ==
  /\ reqs[s].pc = "done"
  /\ reqs' = [reqs EXCEPT ![s] = NoReq]
  /\ UNCHANGED <<products, carts, http>>

\* GET /api/cart: await Cart.findOne
CGetFind(s) ==
  /\ At(s, "cart", "start")
  /\ IF FindOne(carts, reqs[s].user) = 0
     THEN reqs' = [reqs EXCEPT ![s].pc = "create"]
     ELSE Done(s, 200)
  /\ UNCHANGED <<products, carts, http>>

\* GET /api/cart: await Cart.create
CGetCreate(s) ==
  /\ At(s, "cart", "create")
  /\ LET w == SaveCart(carts, 0, reqs[s].user, <<>>) IN
       /\ carts' = w.carts
       /\ Done(s, IF w.ok THEN 200 ELSE 500)
  /\ UNCHANGED <<products, http>>

\* POST /api/cart/add: await Product.findById and the first stock test
CAddProduct(s) ==
  /\ At(s, "add", "start")
  /\ LET productId == reqs[s].id
         quantity == OrOne(reqs[s].arg)
         product == FindById(productId)
     IN  IF ~Truthy(productId) THEN Done(s, 400)
         ELSE IF product = NoDoc THEN Done(s, 404)
         ELSE IF product.stock[2] < quantity[2] THEN Done(s, 400)
         ELSE reqs' = [reqs EXCEPT ![s].pc = "findOne", ![s].stock = product.stock[2]]
  /\ UNCHANGED <<products, carts, http>>

\* POST /api/cart/add: await Cart.findOne, then the merge up to cart.save()
CAddFindCart(s) ==
  /\ At(s, "add", "findOne")
  /\ LET idx == FindOne(carts, reqs[s].user)
         items == ItemsAt(carts, idx)
         at == FindIndex(items, reqs[s].id)
         r == AddItems(items, reqs[s].id, OrOne(reqs[s].arg), reqs[s].stock)
     IN  IF r.status # 200 THEN Done(s, r.status)
         ELSE reqs' = [reqs EXCEPT ![s].pc = "save", ![s].idx = idx,
                                   ![s].items = r.items,
                                   ![s].e = IF at = 0 THEN 0 ELSE items[at].quantity]
  /\ UNCHANGED <<products, carts, http>>

\* POST /api/cart/add: await cart.save()
CAddSave(s) ==
  /\ At(s, "add", "save")
  /\ LET w == SaveCart(carts, reqs[s].idx, reqs[s].user, reqs[s].items) IN
       /\ carts' = w.carts
       /\ Done(s, IF w.ok THEN 200 ELSE 500)
  /\ UNCHANGED <<products, http>>

\* DELETE /api/cart: await Cart.findOne
CClearFind(s) ==
  /\ At(s, "clear", "start")
  /\ IF FindOne(carts, reqs[s].user) = 0
     THEN Done(s, 404)
     ELSE reqs' = [reqs EXCEPT ![s].pc = "save",
                               ![s].idx = FindOne(carts, reqs[s].user)]
  /\ UNCHANGED <<products, carts, http>>

\* DELETE /api/cart: await cart.save()
CClearSave(s) ==
  /\ At(s, "clear", "save")
  /\ IF reqs[s].idx > Len(carts)
     THEN Done(s, 500) /\ UNCHANGED carts
     ELSE LET w == ClearItems(carts, reqs[s].idx) IN
            /\ carts' = w.carts
            /\ Done(s, IF w.ok THEN 200 ELSE 500)
  /\ UNCHANGED <<products, http>>

Init ==
  /\ products = [id \in ProductIds |-> NoDoc]
  /\ carts = <<>>
  /\ http = Idle
  /\ reqs = [s \in Slots |-> NoReq]

PReceive == Receive(ProductRequests, CatalogIds)
PCreate == CreateProduct(CatalogIds)

NextProducts ==
  \/ PReceive
  \/ Respond
  \/ Forbidden
  \/ ListProducts
  \/ GetProduct
  \/ PCreate
  \/ UpdateProduct
  \/ DeleteProduct
  \/ UploadImage

SpecProducts == Init /\ [][NextProducts]_vars

SReceive == Receive(CartRequests \cup StockRequests, ProductIds)
SCreate == CreateProduct(ProductIds)

Next ==
  \/ SReceive
  \/ Respond
  \/ SCreate
  \/ UpdateProduct
  \/ DeleteProduct
  \/ GetCart
  \/ AddToCart
  \/ RemoveFromCart
  \/ UpdateCart
  \/ ClearCart

Spec == Init /\ [][Next]_vars

\* the catalogue the concurrent cart requests run against
InitRace ==
  /\ products = [id \in ProductIds |->
                   IF id = "p1" THEN ApplyDefaults(CreateFields(FullBody(RaceStock)))
                   ELSE NoDoc]
  /\ carts = <<>>
  /\ http = Idle
  /\ reqs = [s \in Slots |-> NoReq]

RReceive == \E s \in Slots : CReceive(s)
RRespond == \E s \in Slots : CRespond(s)
RGetFind == \E s \in Slots : CGetFind(s)
RGetCreate == \E s \in Slots : CGetCreate(s)
RAddProduct == \E s \in Slots : CAddProduct(s)
RAddFindCart == \E s \in Slots : CAddFindCart(s)
RAddSave == \E s \in Slots : CAddSave(s)
RClearFind == \E s \in Slots : CClearFind(s)
RClearSave == \E s \in Slots : CClearSave(s)

NextRace ==
  \/ RReceive
  \/ RRespond
  \/ RGetFind
  \/ RGetCreate
  \/ RAddProduct
  \/ RAddFindCart
  \/ RAddSave
  \/ RClearFind
  \/ RClearSave

SpecRace == InitRace /\ [][NextRace]_vars

(* ------------------------------ properties ---------------------------- *)

\* the step in which the route of op answers the pending request
Handles(op) == Pending(op) /\ http'.phase = "done"

Answered(op) == http.phase = "done" /\ http.op = op

\* the caller's cart before the step: its position, its items, the item of the id
Cart == FindOne(carts, http.caller)
Items == ItemsAt(carts, Cart)
Line == FindIndex(Items, http.id)
Stock == FindById(http.id).stock[2]
Resolves == Truthy(http.id) /\ FindById(http.id) # NoDoc

WithItems(items) ==
  IF Cart = 0 THEN Append(carts, [user |-> http.caller, items |-> items])
  ELSE [carts EXCEPT ![Cart].items = items]

WithQuantity(n) == [carts EXCEPT ![Cart].items[Line].quantity = n]

LineItem(n) == [product |-> http.id[2], quantity |-> n]

AddStep(q) ==
  /\ Line > 0 =>
       /\ http'.status = 200 =>
            /\ Items[Line].quantity + q <= Stock
            /\ carts' = WithQuantity(Items[Line].quantity + q)
       /\ Items[Line].quantity + q > Stock =>
            /\ http'.status = 400
            /\ carts' = carts

\* C1 as stated: Add to a cart that holds P with quantity e succeeds only if
\* e + q <= stock and then stores e + q, and fails with the cart unchanged when
\* e + q > stock; Add of a P the cart does not hold, with q <= stock, appends
\* exactly the line item {P, q}.
C1_AddAnyQuantity ==
  [][Handles("add") /\ Resolves =>
       LET q == OrOne(http.arg)[2] IN
         /\ AddStep(q)
         /\ (Line = 0 /\ q <= Stock) =>
              /\ http'.status = 200
              /\ carts' = WithItems(Append(Items, LineItem(q)))]_vars

\* C1 amended: the same, the append being claimed for 1 <= q <= stock only.
C1_AddMergesWithinStock ==
  [][Handles("add") /\ Resolves =>
       LET q == OrOne(http.arg)[2] IN
         /\ AddStep(q)
         /\ (Line = 0 /\ 1 <= q /\ q <= Stock) =>
              /\ http'.status = 200
              /\ carts' = WithItems(Append(Items, LineItem(q)))]_vars

\* an Add within stock on its own was refused because the cart's quantity plus
\* the request exceeds the stock, and the line item is still there
C1_Witness ==
  /\ Answered("add") /\ http.status = 400 /\ Resolves /\ Line > 0
  /\ OrOne(http.arg)[2] >= 1
  /\ OrOne(http.arg)[2] <= Stock
  /\ Items[Line].quantity + OrOne(http.arg)[2] > Stock

\* C2: every line item of every stored cart has a quantity of at least 1,
\* whatever quantities (absent, zero, negative) the cart requests carried.
C2_QuantitiesPositive ==
  \A i \in 1..Len(carts) :
    \A j \in 1..Len(carts[i].items) :
      carts[i].items[j].quantity \in Nat \ {0}

\* an Add with a quantity below 1 passed the stock tests and was refused at the save
C2_Witness ==
  /\ Answered("add") /\ http.status = 500
  /\ IsNum(http.arg) /\ http.arg[2] < 1

Negative(v) == IsNum(v) /\ v[2] < 0

\* C5: every stored product has price >= 0 and stock >= 0, and a Create or
\* Update that carries a negative price or stock is rejected, the store unchanged.
C5_PriceAndStockNonNegative ==
  /\ [](\A id \in ProductIds :
          products[id] # NoDoc =>
            products[id].price[2] >= 0 /\ products[id].stock[2] >= 0)
  /\ [][(Handles("create") \/ Handles("update"))
          /\ (Negative(http.arg.price) \/ Negative(http.arg.stock)) =>
            /\ http'.status \notin {200, 201}
            /\ products' = products]_vars

\* the schema refused an otherwise complete product with a negative price or stock
C5_Witness ==
  /\ (Answered("create") \/ Answered("update"))
  /\ http.caller = "admin" /\ http.status = 500
  /\ Negative(http.arg.price) \/ Negative(http.arg.stock)

Absent(v) == v = Undefined \/ v = Str("")

\* C6 as stated: Create ends in 400 and stores nothing exactly when one of name,
\* description, price, category is absent (an empty string counted as absent);
\* with the four supplied and schema-valid, price any non-negative number, it
\* ends in 201 and the product is stored, stock 0 when stock is absent or invalid.
C6_CreateRejectsExactlyMissing ==
  [][Handles("create") /\ http.caller = "admin" =>
       LET b == http.arg
           missing == Absent(b.name) \/ Absent(b.description) \/ Absent(b.price)
                        \/ Absent(b.category)
       IN  /\ missing <=> http'.status = 400
           /\ missing => products' = products
           /\ (/\ ~missing
               /\ IsNum(b.price) /\ b.price[2] >= 0
               /\ b.category[2] \in Categories
               /\ ~Negative(b.stock)) =>
                /\ http'.status = 201
                /\ \E id \in ProductIds :
                     /\ products[id] = NoDoc /\ products'[id] # NoDoc
                     /\ products'[id].price = b.price
                     /\ products'[id].stock = (IF IsNum(b.stock) THEN b.stock ELSE Num(0))]_vars

\* C7 as stated, for the updates that are accepted: every field present in the
\* request is the stored value afterwards, every omitted field keeps its value;
\* an id that does not resolve gives not-found and changes no product.
C7_UpdateOverwritesPresent ==
  [][Handles("update") /\ http.caller = "admin" =>
       LET b == http.arg
           p == FindById(http.id)
       IN  /\ p = NoDoc => http'.status = 404 /\ products' = products
           /\ (p # NoDoc /\ http'.status = 200) =>
                LET n == products'[http.id[2]] IN
                  /\ n.name = (IF b.name = Undefined THEN p.name ELSE b.name)
                  /\ n.description = (IF b.description = Undefined THEN p.description
                                      ELSE b.description)
                  /\ n.price = (IF b.price = Undefined THEN p.price ELSE b.price)
                  /\ n.category = (IF b.category = Undefined THEN p.category
                                   ELSE b.category)
                  /\ n.stock = (IF b.stock = Undefined THEN p.stock ELSE b.stock)
                  /\ n.image = (IF b.image = Undefined THEN p.image ELSE b.image)
                  /\ n.featured = (IF b.featured = Undefined THEN p.featured
                                   ELSE b.featured)]_vars

Admin(c) == c # Anon /\ Role(c) = "admin"

\* C8: a product mutation asked by a caller who is not an authenticated admin
\* ends in 403 with the store unchanged; a mutation is answered by its handler
\* only for an admin; List and Get are answered by their handlers for any caller.
C8_MutationsAdminOnly ==
  [][/\ (http.phase = "pending" /\ http'.phase = "done" /\ http.op \in Mutations) =>
          /\ ~Admin(http.caller) => http'.status = 403 /\ products' = products
          /\ http'.status # 403 => Admin(http.caller)
     /\ Handles("list") => http'.status = 200
     /\ Handles("get") => http'.status \in {200, 404}]_vars

\* a signed-in caller without the admin role asked for a mutation of a stocked
\* catalogue and got 403
C8_Witness ==
  /\ http.phase = "done" /\ http.op \in {"update", "delete"}
  /\ http.caller = "u1" /\ http.status = 403
  /\ FindById(http.id) # NoDoc

HasCart(cs, u) == \E i \in 1..Len(cs) : cs[i].user = u

\* C9: there is at most one cart per user under every interleaving of the
\* requests that create one, and a user's cart, once stored, stays stored.
C9_OneCartPerUser ==
  /\ [](\A i, j \in 1..Len(carts) : carts[i].user = carts[j].user => i = j)
  /\ [][\A u \in Users : HasCart(carts, u) => HasCart(carts', u)]_vars

\* two requests of one user both found no cart; one created it, the other's
\* create was refused
C9_Witness ==
  \E s \in Slots :
    /\ reqs[s].pc = "done" /\ reqs[s].status = 500
    /\ reqs[Other(s)].pc = "done" /\ reqs[Other(s)].status = 200
    /\ reqs[s].user = reqs[Other(s)].user
    /\ reqs[s].op \in {"cart", "add"} /\ reqs[Other(s)].op \in {"cart", "add"}
    /\ reqs[s].op # reqs[Other(s)].op
    /\ Len(carts) = 1

\* the stored quantity of the line item the request of slot s is about
Stored(s) ==
  LET items == ItemsAt(carts, FindOne(carts, reqs[s].user))
      at == FindIndex(items, reqs[s].id)
  IN  IF at = 0 THEN 0 ELSE items[at].quantity

\* two answered, successful Adds of one user for one product and quantity q,
\* both on an existing line item
TwoAdds(s, t) ==
  /\ s # t
  /\ reqs[s].pc = "done" /\ reqs[t].pc = "done"
  /\ reqs[s].op = "add" /\ reqs[t].op = "add"
  /\ reqs[s].status = 200 /\ reqs[t].status = 200
  /\ reqs[s].user = reqs[t].user /\ reqs[s].id = reqs[t].id
  /\ OrOne(reqs[s].arg) = OrOne(reqs[t].arg)
  /\ reqs[s].e > 0 /\ reqs[t].e > 0

\* C10: of two successful Adds of q by one user for one product, when both read
\* the same quantity e the stored quantity is e + q; when the second came after
\* the first was answered it is e + 2q, e being what the first read.
C10_LostIncrement ==
  \A s, t \in Slots :
    TwoAdds(s, t) =>
      /\ reqs[s].e = reqs[t].e => Stored(s) = reqs[s].e + OrOne(reqs[s].arg)[2]
      /\ reqs[t].after => Stored(s) = reqs[s].e + 2 * OrOne(reqs[s].arg)[2]

\* both Adds read the same quantity, both succeeded, one increment is lost
C10_Witness ==
  \E s, t \in Slots :
    /\ TwoAdds(s, t)
    /\ reqs[s].e = reqs[t].e
    /\ ~reqs[s].after /\ ~reqs[t].after
    /\ Stored(s) = reqs[s].e + OrOne(reqs[s].arg)[2]
    /\ Stored(s) # reqs[s].e + 2 * OrOne(reqs[s].arg)[2]

\* the second Add came after the first was answered and both increments are stored
C10_SequentialReached ==
  \E s, t \in Slots :
    /\ TwoAdds(s, t) /\ reqs[t].after
    /\ Stored(s) = reqs[s].e + 2 * OrOne(reqs[s].arg)[2]

====
